---- MODULE Spec2Model ----
(***************************************************************************)
(* Model of src/index.mts: class swnSQLite, a facade that runs every       *)
(* operation as  open -> one statement -> close  on a SQLite database file. *)
(*                                                                         *)
(* The facade's own code (statement construction, the three primitives     *)
(* executeQuery / fetchAll / fetchOne and their await points) is modelled   *)
(* step by step.  The database engine behind open(), db.run(), db.all(),   *)
(* db.get() and db.close() is an external library; it is modelled by the   *)
(* Engine* operators: one table namespace, rows as column->value maps,     *)
(* errors reported by rejecting the awaited promise.                       *)
(***************************************************************************)
EXTENDS Integers, Sequences, FiniteSets, TLC

(* ------------------------------ bounds -------------------------------- *)
\* concurrent logical tasks issuing calls on one facade instance
NumTasks == 2
\* calls issued in one behaviour of concurrent tasks
MaxCalls == 2
\* calls issued in one behaviour of a single task
MaxSeqCalls == 4
\* rows a table may hold
MaxRows == 2

Tasks == 1..NumTasks

VARIABLES
    dbName,    \* this.dbName, set by the constructor
    file,      \* the database file: table name -> [defs, rows]
    handles,   \* every handle open() has produced, in order of creation
    calls,     \* per task: the call it is running (or has just finished)
    nCalls,    \* calls issued so far
    callsLeft  \* calls the tasks will still issue

vars == <<dbName, file, handles, calls, nCalls, callsLeft>>

(* ------------------------------ values -------------------------------- *)
NULL == "NULL"
Values == {"v1", "v2"}

\* SQLite's ordering of the values above: NULL sorts first
Rank(v) == CASE v = NULL -> 0 [] v = "v1" -> 1 [] v = "v2" -> 2

RECURSIVE Count(_, _)
Count(s, x) ==
    IF s = <<>> THEN 0
    ELSE (IF Head(s) = x THEN 1 ELSE 0) + Count(Tail(s), x)

RECURSIVE SeqFilter(_, _)
SeqFilter(s, keep) ==
    IF s = <<>> THEN <<>>
    ELSE IF Head(s) \in keep THEN <<Head(s)>> \o SeqFilter(Tail(s), keep)
    ELSE SeqFilter(Tail(s), keep)

Range(s) == {s[i] : i \in DOMAIN s}

(* ------------------- statement text, as its fragments ------------------ *)
\* A template literal is kept as the fragments it interpolates: the fixed
\* words (the verb) and the interpolated texts.  An absent clause is
\* the empty sequence, a present one a one-element sequence.
Stmt(verb, table, defs, columns, placeholders, set, where, orderBy) ==
    [verb |-> verb, table |-> table, defs |-> defs, columns |-> columns,
     placeholders |-> placeholders, set |-> set, where |-> where,
     orderBy |-> orderBy]

\* the statement without the IF NOT EXISTS words
createTableQueryPlain(tableName, columns) ==
    Stmt("CREATE TABLE", tableName, <<columns>>, <<>>, <<>>, <<>>, <<>>, <<>>)

\* line 78: `CREATE TABLE IF NOT EXISTS ${tableName} (${columns})`
createTableQuery(tableName, columns) ==
    Stmt("CREATE TABLE IF NOT EXISTS", tableName, <<columns>>, <<>>, <<>>,
         <<>>, <<>>, <<>>)

\* one placeholder too few
insertPlaceholdersShort(values) == [i \in 1..(Len(values) - 1) |-> "?"]

\* line 92: values.map(() => '?').join(', ')
insertPlaceholders(values) == [i \in 1..Len(values) |-> "?"]

\* line 93: `INSERT INTO ${tableName} (${columns}) VALUES (${placeholders})`
insertQuery(tableName, columns, values) ==
    Stmt("INSERT INTO", tableName, <<>>, <<columns>>,
         <<insertPlaceholders(values)>>, <<>>, <<>>, <<>>)

\* the values bound in the opposite order
insertParamsReversed(values) ==
    [i \in 1..Len(values) |-> values[Len(values) + 1 - i]]

\* line 94: the parameter list handed to executeQuery
insertParams(values) == values

\* the statement with its condition lost: every row is updated
updateQueryNoWhere(tableName, setValues, condition) ==
    Stmt("UPDATE", tableName, <<>>, <<>>, <<>>, <<setValues>>, <<"1 = 1">>,
         <<>>)

\* line 108: `UPDATE ${tableName} SET ${setValues} WHERE ${condition}`
updateQuery(tableName, setValues, condition) ==
    Stmt("UPDATE", tableName, <<>>, <<>>, <<>>, <<setValues>>,
         <<condition>>, <<>>)

\* line 122: `DELETE FROM ${tableName} WHERE ${condition}`
deleteQuery(tableName, condition) ==
    Stmt("DELETE FROM", tableName, <<>>, <<>>, <<>>, <<>>, <<condition>>,
         <<>>)

\* line 135: `SELECT * FROM ${tableName}`
selectAllQuery(tableName) ==
    Stmt("SELECT * FROM", tableName, <<>>, <<>>, <<>>, <<>>, <<>>, <<>>)

\* line 150: `SELECT * FROM ${tableName} WHERE ${condition}`
selectWhereQuery(tableName, condition) ==
    Stmt("SELECT * FROM", tableName, <<>>, <<>>, <<>>, <<>>, <<condition>>,
         <<>>)

\* line 164: `SELECT * FROM ${tableName} ORDER BY ${orderBy}`
selectAllOrderedQuery(tableName, orderBy) ==
    Stmt("SELECT * FROM", tableName, <<>>, <<>>, <<>>, <<>>, <<>>,
         <<orderBy>>)

(* ----------------------- the external engine ------------------------- *)
(* What the sqlite engine does with the texts a caller may interpolate.   *)
(* Each Parse* operator recognises the well-formed texts of the input     *)
(* sets below; any other text is a syntax error.                          *)

ERR_SYNTAX == "SQLITE_ERROR"
ERR_CONSTRAINT == "SQLITE_CONSTRAINT"
ERR_RANGE == "SQLITE_RANGE"
ERR_CANTOPEN == "SQLITE_CANTOPEN"
NoError == "none"

EngineParseDefs(text) ==
    CASE text = "a UNIQUE, b" ->
           [ok |-> TRUE, cols |-> <<"a", "b">>, unique |-> {"a"}]
      [] OTHER -> [ok |-> FALSE, cols |-> <<>>, unique |-> {}]

EngineParseColumns(text) ==
    CASE text = "a, b" -> [ok |-> TRUE, cols |-> <<"a", "b">>]
      [] text = "b, a" -> [ok |-> TRUE, cols |-> <<"b", "a">>]
      [] text = "b" -> [ok |-> TRUE, cols |-> <<"b">>]
      [] OTHER -> [ok |-> FALSE, cols |-> <<>>]

\* an assignment `col = ?` or a comparison `col = ?`; col = "" is a test
\* without column (the always-true `1 = 1`)
EngineParseSet(text) ==
    CASE text = "b = ?" -> [ok |-> TRUE, col |-> "b", nph |-> 1]
      [] OTHER -> [ok |-> FALSE, col |-> "", nph |-> 0]

EngineParseCondition(text) ==
    CASE text = "1 = 1" -> [ok |-> TRUE, col |-> "", nph |-> 0]
      [] text = "a = ?" -> [ok |-> TRUE, col |-> "a", nph |-> 1]
      [] text = "b = ?" -> [ok |-> TRUE, col |-> "b", nph |-> 1]
      [] OTHER -> [ok |-> FALSE, col |-> "", nph |-> 0]

EngineParseOrderBy(text) ==
    CASE text = "a ASC" -> [ok |-> TRUE, col |-> "a", desc |-> FALSE]
      [] text = "b DESC" -> [ok |-> TRUE, col |-> "b", desc |-> TRUE]
      [] OTHER -> [ok |-> FALSE, col |-> "", desc |-> FALSE]

\* the i-th bound parameter; a placeholder left without a parameter is NULL
EngineBind(params, i) == IF i \in DOMAIN params THEN params[i] ELSE NULL

\* SQL comparison: nothing equals NULL
EngineMatches(cond, row, arg) ==
    IF cond.col = "" THEN TRUE ELSE row[cond.col] # NULL /\ row[cond.col] = arg

EngineUniqueOk(schema, rows) ==
    \A c \in schema.unique : \A i, j \in DOMAIN rows :
        (i # j /\ rows[i][c] # NULL) => rows[i][c] # rows[j][c]

\* r sorts before s under ORDER BY col [DESC]
EngineBefore(r, s, ord) ==
    IF ord.desc THEN Rank(r[ord.col]) > Rank(s[ord.col])
    ELSE Rank(r[ord.col]) < Rank(s[ord.col])

\* stable insertion of row r into the sorted sequence s
RECURSIVE EngineInsertSorted(_, _, _)
EngineInsertSorted(s, r, ord) ==
    IF s = <<>> THEN <<r>>
    ELSE IF EngineBefore(r, Head(s), ord) THEN <<r>> \o s
    ELSE <<Head(s)>> \o EngineInsertSorted(Tail(s), r, ord)

RECURSIVE EngineSort(_, _)
EngineSort(rows, ord) ==
    IF rows = <<>> THEN <<>>
    ELSE EngineInsertSorted(EngineSort(SubSeq(rows, 1, Len(rows) - 1), ord),
                            rows[Len(rows)], ord)

\* the outcome of one statement: the error, or the new file, the rows read
\* and the number of rows written
EngineFail(err, f) == [err |-> err, file |-> f, rows |-> <<>>, changes |-> 0]
EngineDone(f, rows, changes) ==
    [err |-> NoError, file |-> f, rows |-> rows, changes |-> changes]

EngineSchema(f, table) == EngineParseDefs(f[table].defs)

\* CREATE TABLE [IF NOT EXISTS]: without the IF NOT EXISTS words an existing
\* table is an error, with them it is left as it is
EngineCreate(q, params, f) ==
    LET d == EngineParseDefs(q.defs[1]) IN
    IF ~d.ok THEN EngineFail(ERR_SYNTAX, f)
    ELSE IF q.table \in DOMAIN f /\ q.verb = "CREATE TABLE"
    THEN EngineFail(ERR_SYNTAX, f)
    ELSE IF Len(params) > 0 THEN EngineFail(ERR_RANGE, f)
    ELSE IF q.table \in DOMAIN f THEN EngineDone(f, <<>>, 0)
    ELSE EngineDone(f @@ (q.table :> [defs |-> q.defs[1], rows |-> <<>>]),
                    <<>>, 0)

EngineInsert(q, params, f) ==
    LET c == EngineParseColumns(q.columns[1])
        n == Len(q.placeholders[1])
    IN
    IF q.table \notin DOMAIN f \/ ~c.ok THEN EngineFail(ERR_SYNTAX, f)
    ELSE
    LET schema == EngineSchema(f, q.table)
        row == [k \in Range(schema.cols) |->
                  IF \E i \in DOMAIN c.cols : c.cols[i] = k
                  THEN EngineBind(params,
                                  CHOOSE i \in DOMAIN c.cols : c.cols[i] = k)
                  ELSE NULL]
        rows == Append(f[q.table].rows, row)
    IN
    IF ~(Range(c.cols) \subseteq Range(schema.cols)) \/ n # Len(c.cols)
    THEN EngineFail(ERR_SYNTAX, f)
    ELSE IF Len(params) > n THEN EngineFail(ERR_RANGE, f)
    ELSE IF ~EngineUniqueOk(schema, rows) THEN EngineFail(ERR_CONSTRAINT, f)
    ELSE EngineDone([f EXCEPT ![q.table].rows = rows], <<>>, 1)

EngineUpdate(q, params, f) ==
    LET s == EngineParseSet(q.set[1])
        w == EngineParseCondition(q.where[1])
    IN
    IF q.table \notin DOMAIN f \/ ~s.ok \/ ~w.ok THEN EngineFail(ERR_SYNTAX, f)
    ELSE
    LET schema == EngineSchema(f, q.table)
        old == f[q.table].rows
        val == EngineBind(params, 1)
        arg == EngineBind(params, s.nph + 1)
        rows == [i \in DOMAIN old |->
                   IF EngineMatches(w, old[i], arg)
                   THEN [old[i] EXCEPT ![s.col] = val] ELSE old[i]]
    IN
    IF ~({s.col, w.col} \subseteq Range(schema.cols) \cup {""})
    THEN EngineFail(ERR_SYNTAX, f)
    ELSE IF Len(params) > s.nph + w.nph THEN EngineFail(ERR_RANGE, f)
    ELSE IF ~EngineUniqueOk(schema, rows) THEN EngineFail(ERR_CONSTRAINT, f)
    ELSE EngineDone([f EXCEPT ![q.table].rows = rows], <<>>,
                    Cardinality({i \in DOMAIN old :
                                   EngineMatches(w, old[i], arg)}))

EngineDelete(q, params, f) ==
    LET w == EngineParseCondition(q.where[1]) IN
    IF q.table \notin DOMAIN f \/ ~w.ok THEN EngineFail(ERR_SYNTAX, f)
    ELSE
    LET schema == EngineSchema(f, q.table)
        old == f[q.table].rows
        arg == EngineBind(params, 1)
        keep == {r \in Range(old) : ~EngineMatches(w, r, arg)}
    IN
    IF ~({w.col} \subseteq Range(schema.cols) \cup {""})
    THEN EngineFail(ERR_SYNTAX, f)
    ELSE IF Len(params) > w.nph THEN EngineFail(ERR_RANGE, f)
    ELSE EngineDone([f EXCEPT ![q.table].rows = SeqFilter(old, keep)], <<>>,
                    Len(old) - Len(SeqFilter(old, keep)))

EngineSelect(q, params, f) ==
    LET w == IF q.where = <<>> THEN EngineParseCondition("1 = 1")
             ELSE EngineParseCondition(q.where[1])
        o == IF q.orderBy = <<>> THEN EngineParseOrderBy("a ASC")
             ELSE EngineParseOrderBy(q.orderBy[1])
    IN
    IF q.table \notin DOMAIN f \/ ~w.ok \/ ~o.ok THEN EngineFail(ERR_SYNTAX, f)
    ELSE
    LET schema == EngineSchema(f, q.table)
        old == f[q.table].rows
        arg == EngineBind(params, 1)
        hit == SeqFilter(old, {r \in Range(old) : EngineMatches(w, r, arg)})
    IN
    IF ~({w.col, o.col} \subseteq Range(schema.cols) \cup {""})
    THEN EngineFail(ERR_SYNTAX, f)
    ELSE IF Len(params) > w.nph THEN EngineFail(ERR_RANGE, f)
    ELSE EngineDone(f, IF q.orderBy = <<>> THEN hit ELSE EngineSort(hit, o), 0)

\* one statement against the file: the error or the new file and the rows
EngineExec(q, params, f) ==
    CASE q.verb \in {"CREATE TABLE IF NOT EXISTS", "CREATE TABLE"} ->
           EngineCreate(q, params, f)
      [] q.verb = "INSERT INTO" -> EngineInsert(q, params, f)
      [] q.verb = "UPDATE" -> EngineUpdate(q, params, f)
      [] q.verb = "DELETE FROM" -> EngineDelete(q, params, f)
      [] q.verb = "SELECT * FROM" -> EngineSelect(q, params, f)
      [] OTHER -> EngineFail(ERR_SYNTAX, f)

\* what the awaited engine promise resolves with (sqlite's Database.run,
\* .all and .get): a run result without rows, every row, the first row or
\* undefined
EngineRun(r) == [kind |-> "run", rows |-> <<>>, changes |-> r.changes]
EngineAll(r) == [kind |-> "rows", rows |-> r.rows, changes |-> 0]
EngineGet(r) ==
    IF r.rows = <<>> THEN [kind |-> "undefined", rows |-> <<>>, changes |-> 0]
    ELSE [kind |-> "row", rows |-> <<r.rows[1]>>, changes |-> 0]

\* a database file without tables
EmptyFile == [t \in {} |-> <<>>]

(* ------------------------------ the facade ----------------------------- *)
NoQuery == Stmt("", "", <<>>, <<>>, <<>>, <<>>, <<>>, <<>>)
NoValue == [kind |-> "none", rows |-> <<>>, changes |-> 0]
Void == [kind |-> "void", rows |-> <<>>, changes |-> 0]

\* a task that has issued no call yet
Idle ==
    [id |-> 0, op |-> "", args |-> <<>>, prim |-> "", query |-> NoQuery,
     params |-> <<>>,
     pc |-> "idle", db |-> 0, got |-> NoValue, settled |-> "pending",
     result |-> NoValue, err |-> NoError, trace |-> <<>>]

\* lines 19-21: a facade on a database file that holds no table yet
Constructed ==
    /\ dbName = "example.db"
    /\ file = EmptyFile
    /\ handles = <<>>
    /\ calls = [t \in Tasks |-> Idle]
    /\ nCalls = 0

Init == Constructed /\ callsLeft = MaxCalls

\* a task may issue a call when it is not awaiting one
CanCall(t) == calls[t].pc \in {"idle", "done"} /\ callsLeft > 0

\* a task calls one of the three primitives (directly or through a method
\* built on it): the async function starts and reaches its first await
Call(t, op, args, prim, query, params) ==
    /\ callsLeft' = callsLeft - 1
    /\ nCalls' = nCalls + 1
    /\ calls' = [calls EXCEPT ![t] =
                   [Idle EXCEPT !.id = nCalls + 1, !.op = op, !.args = args,
                                !.prim = prim,
                                !.query = query, !.params = params,
                                !.pc = "open"]]
    /\ UNCHANGED <<dbName, file, handles>>

\* lines 31-35
executeQuery(t, query, params) ==
    /\ CanCall(t)
    /\ Call(t, "executeQuery", <<query, params>>, "executeQuery", query, params)

\* lines 46-51
fetchAll(t, query, params) ==
    /\ CanCall(t)
    /\ Call(t, "fetchAll", <<query, params>>, "fetchAll", query, params)

\* lines 62-67
fetchOne(t, query, params) ==
    /\ CanCall(t)
    /\ Call(t, "fetchOne", <<query, params>>, "fetchOne", query, params)

\* lines 77-80: executeQuery(query), params defaulting to []
createTable(t, tableName, columns) ==
    /\ CanCall(t)
    /\ Call(t, "createTable", <<tableName, columns>>, "executeQuery",
            createTableQuery(tableName, columns), <<>>)

\* lines 91-95
insert(t, tableName, columns, values) ==
    /\ CanCall(t)
    /\ Call(t, "insert", <<tableName, columns, values>>, "executeQuery",
            insertQuery(tableName, columns, values), insertParams(values))

\* lines 107-110
update(t, tableName, setValues, condition, params) ==
    /\ CanCall(t)
    /\ Call(t, "update", <<tableName, setValues, condition, params>>,
            "executeQuery", updateQuery(tableName, setValues, condition), params)

\* a delete that does not pass its parameters on
deleteNoParams(t, tableName, condition, params) ==
    /\ CanCall(t)
    /\ Call(t, "delete", <<tableName, condition, params>>, "executeQuery",
            deleteQuery(tableName, condition), <<>>)

\* lines 121-124
delete(t, tableName, condition, params) ==
    /\ CanCall(t)
    /\ Call(t, "delete", <<tableName, condition, params>>, "executeQuery",
            deleteQuery(tableName, condition), params)

\* lines 134-137: fetchAll(query), params defaulting to []
selectAll(t, tableName) ==
    /\ CanCall(t)
    /\ Call(t, "selectAll", <<tableName>>, "fetchAll", selectAllQuery(tableName),
            <<>>)

\* lines 149-152
selectWhere(t, tableName, condition, params) ==
    /\ CanCall(t)
    /\ Call(t, "selectWhere", <<tableName, condition, params>>, "fetchAll",
            selectWhereQuery(tableName, condition), params)

\* lines 163-166: fetchAll(query), params defaulting to []
selectAllOrdered(t, tableName, orderBy) ==
    /\ CanCall(t)
    /\ Call(t, "selectAllOrdered", <<tableName, orderBy>>, "fetchAll",
            selectAllOrderedQuery(tableName, orderBy), <<>>)

\* a facade that keeps a handle and hands out an open one when there is one
OpenOkShared(t) ==
    /\ calls[t].pc = "open"
    /\ IF \E h \in DOMAIN handles : handles[h].open
       THEN /\ handles' = handles
            /\ calls' = [calls EXCEPT
                           ![t].db = CHOOSE h \in DOMAIN handles :
                                        handles[h].open,
                           ![t].pc = "exec", ![t].trace = Append(@, "open")]
       ELSE /\ handles' = Append(handles,
                                 [owner |-> calls[t].id, filename |-> dbName,
                                  open |-> TRUE, users |-> {}, closer |-> 0])
            /\ calls' = [calls EXCEPT ![t].db = Len(handles) + 1,
                                      ![t].pc = "exec",
                                      ![t].trace = Append(@, "open")]
    /\ UNCHANGED <<dbName, file, nCalls, callsLeft>>

\* lines 32, 47, 63: `await open(...)` resolves with a fresh handle on
\* this.dbName, kept in the call's local `db`
OpenOk(t) ==
    /\ calls[t].pc = "open"
    /\ handles' = Append(handles, [owner |-> calls[t].id, filename |-> dbName,
                                   open |-> TRUE, users |-> {}, closer |-> 0])
    /\ calls' = [calls EXCEPT ![t].db = Len(handles) + 1, ![t].pc = "exec",
                              ![t].trace = Append(@, "open")]
    /\ UNCHANGED <<dbName, file, nCalls, callsLeft>>

\* lines 32, 47, 63: `await open(...)` rejects (the file cannot be opened);
\* nothing catches it, so the call's promise rejects with the same error
OpenFail(t) ==
    /\ calls[t].pc = "open"
    /\ calls' = [calls EXCEPT ![t].pc = "done", ![t].settled = "rejected",
                              ![t].err = ERR_CANTOPEN,
                              ![t].trace = Append(@, "openFailed")]
    /\ UNCHANGED <<dbName, file, handles, nCalls, callsLeft>>

\* the engine method each primitive awaits: db.run (33), db.all (48),
\* db.get (64)
EngineMethod(prim, r) ==
    CASE prim = "executeQuery" -> EngineRun(r)
      [] prim = "fetchAll" -> EngineAll(r)
      [] prim = "fetchOne" -> EngineGet(r)

\* lines 33, 48, 64: the awaited statement resolves
ExecOk(t) ==
    LET c == calls[t]
        r == EngineExec(c.query, c.params, file)
    IN
    /\ c.pc = "exec"
    /\ r.err = NoError
    /\ \A n \in DOMAIN r.file : Len(r.file[n].rows) <= MaxRows
    /\ file' = r.file
    /\ handles' = [handles EXCEPT ![c.db].users = @ \cup {c.id}]
    /\ calls' = [calls EXCEPT ![t].got = EngineMethod(c.prim, r),
                              ![t].pc = "close",
                              ![t].trace = Append(@, "exec")]
    /\ UNCHANGED <<dbName, nCalls, callsLeft>>

\* a primitive that catches the statement's error and carries on
ExecFailCaught(t) ==
    LET c == calls[t]
        r == EngineExec(c.query, c.params, file)
    IN
    /\ c.pc = "exec"
    /\ r.err # NoError
    /\ handles' = [handles EXCEPT ![c.db].users = @ \cup {c.id}]
    /\ calls' = [calls EXCEPT ![t].pc = "close",
                              ![t].trace = Append(@, "execFailed")]
    /\ UNCHANGED <<dbName, file, nCalls, callsLeft>>

\* lines 33, 48, 64: the awaited statement rejects; nothing catches it, the
\* rest of the function (the close) is skipped and the call's promise rejects
ExecFail(t) ==
    LET c == calls[t]
        r == EngineExec(c.query, c.params, file)
    IN
    /\ c.pc = "exec"
    /\ r.err # NoError
    /\ handles' = [handles EXCEPT ![c.db].users = @ \cup {c.id}]
    /\ calls' = [calls EXCEPT ![t].pc = "done", ![t].settled = "rejected",
                              ![t].err = r.err,
                              ![t].trace = Append(@, "execFailed")]
    /\ UNCHANGED <<dbName, file, nCalls, callsLeft>>

\* lines 34, 49, 65: `await db.close()`
Close(t) ==
    LET c == calls[t] IN
    /\ c.pc = "close"
    /\ handles' = [handles EXCEPT ![c.db].open = FALSE,
                                  ![c.db].closer = c.id]
    /\ calls' = [calls EXCEPT ![t].pc = "return",
                              ![t].trace = Append(@, "close")]
    /\ UNCHANGED <<dbName, file, nCalls, callsLeft>>

\* line 35: executeQuery returns nothing
executeQueryReturn(got) == Void
\* line 50: return rows
fetchAllReturn(rows) == rows
\* `return row || {}`: an empty object where no row was found
fetchOneReturnObject(row) == [row EXCEPT !.kind = "row"]
\* line 66: return row
fetchOneReturn(row) == row

\* lines 35, 50, 66: the function returns and the call's promise resolves
Return(t) ==
    LET c == calls[t] IN
    /\ c.pc = "return"
    /\ calls' = [calls EXCEPT
                   ![t].pc = "done", ![t].settled = "resolved",
                   ![t].trace = Append(@, "return"),
                   ![t].result =
                      CASE c.prim = "executeQuery" -> executeQueryReturn(c.got)
                        [] c.prim = "fetchAll" -> fetchAllReturn(c.got)
                        [] c.prim = "fetchOne" -> fetchOneReturn(c.got)]
    /\ UNCHANGED <<dbName, file, handles, nCalls, callsLeft>>

(* ------------------------------- inputs -------------------------------- *)
\* the texts and lists a caller passes; "a UNIQUE b" and "a =" are malformed
AllInputs ==
    [tables |-> {"users"},
     defs |-> {"a UNIQUE, b", "a UNIQUE b"},
     lists |-> {"a, b", "b, a", "b"},
     values |-> {<<"v1">>, <<"v1", "v2">>, <<"v2", "v1">>, <<"v2", "v2">>},
     sets |-> {"b = ?"},
     conds |-> {"1 = 1", "a = ?", "a ="},
     params |-> {<<>>, <<"v1">>, <<"v2">>, <<"v2", "v1">>},
     orders |-> {"a ASC", "b DESC"}]

\* a smaller choice for the interleavings of concurrent calls: statements
\* that succeed, that fail in the engine, that read and that write
FewInputs ==
    [tables |-> {"users"},
     defs |-> {"a UNIQUE, b"},
     lists |-> {"a, b"},
     values |-> {<<"v1", "v2">>},
     sets |-> {"b = ?"},
     conds |-> {"a = ?"},
     params |-> {<<"v1">>},
     orders |-> {"a ASC"}]

Step(t) ==
    \/ OpenOk(t)
    \/ OpenFail(t)
    \/ ExecOk(t)
    \/ ExecFail(t)
    \/ Close(t)
    \/ Return(t)

Invoke(t, in) ==
    \/ \E n \in in.tables, c \in in.conds, p \in in.params :
          \/ fetchOne(t, selectWhereQuery(n, c), p)
          \/ delete(t, n, c, p)
          \/ selectWhere(t, n, c, p)
          \/ \E s \in in.sets : update(t, n, s, c, p)
    \/ \E n \in in.tables :
          \/ executeQuery(t, deleteQuery(n, "1 = 1"), <<>>)
          \/ fetchAll(t, selectAllQuery(n), <<>>)
          \/ selectAll(t, n)
    \/ \E n \in in.tables, d \in in.defs : createTable(t, n, d)
    \/ \E n \in in.tables, l \in in.lists, v \in in.values : insert(t, n, l, v)
    \/ \E n \in in.tables, o \in in.orders : selectAllOrdered(t, n, o)

\* calls issued concurrently by every task
Next == \E t \in Tasks : Invoke(t, FewInputs) \/ Step(t)

Spec == Init /\ [][Next]_vars

\* calls issued one after the other by one task, over every input
InitSeq == Constructed /\ callsLeft = MaxSeqCalls

NextSeq == Invoke(1, AllInputs) \/ Step(1)

SpecSeq == InitSeq /\ [][NextSeq]_vars

(* ------------------------------- claims -------------------------------- *)
\* the call with this id is still running
InFlight(id) == \E t \in Tasks : calls[t].id = id /\ calls[t].pc # "done"

\* the events of a call that are statement executions, failed or not
Execs(c) == Count(c.trace, "exec") + Count(c.trace, "execFailed")

\* C1: whenever a call has returned or failed, the handle it opened is
\* closed: no handle stays open after its call ended.
C1_HandleClosedAfterCall ==
    \A h \in DOMAIN handles :
        ~InFlight(handles[h].owner) => ~handles[h].open

\* C2: every call that has ended on a handle it opened on the facade's file
\* performed, in this order, exactly one open, exactly one statement
\* execution on that handle and exactly one close of it, and a call that
\* returned did so after the close.
C2_OpenExecCloseInOrder ==
    \A t \in Tasks :
        (calls[t].pc = "done" /\ calls[t].db # 0) =>
            LET tr == calls[t].trace IN
            /\ Len(tr) >= 3
            /\ tr[1] = "open"
            /\ tr[2] \in {"exec", "execFailed"}
            /\ tr[3] = "close"
            /\ Count(tr, "open") = 1
            /\ Execs(calls[t]) = 1
            /\ Count(tr, "close") = 1
            /\ handles[calls[t].db].filename = dbName
            /\ handles[calls[t].db].closer = calls[t].id
            /\ (calls[t].settled = "resolved" =>
                    tr = <<"open", "exec", "close", "return">>)

\* C9: handles are never shared: a call runs its statement and its close on
\* the handle it opened itself, on the facade's file; no handle is used or
\* closed by a call other than its opener, none is held by two calls, and a
\* handle left behind by an ended call is used by no later call.
C9_HandlesNeverShared ==
    /\ \A h \in DOMAIN handles :
          /\ handles[h].users \subseteq {handles[h].owner}
          /\ handles[h].closer \in {0, handles[h].owner}
          /\ handles[h].filename = dbName
    /\ \A h, k \in DOMAIN handles :
          h # k => handles[h].owner # handles[k].owner
    /\ \A t \in Tasks :
          calls[t].db # 0 =>
             /\ calls[t].db \in DOMAIN handles
             /\ handles[calls[t].db].owner = calls[t].id
    /\ \A t, u \in Tasks :
          (t # u /\ calls[t].db # 0) => calls[t].db # calls[u].db

\* two calls are in flight at once, each has run its statement on its own
\* handle and both handles are still open
C9_TwoCallsTwoHandles ==
    \E t, u \in Tasks :
        /\ t # u
        /\ calls[t].pc = "close" /\ calls[u].pc = "close"
        /\ handles[calls[t].db].open /\ handles[calls[u].db].open
        /\ handles[calls[t].db].users = {calls[t].id}
        /\ handles[calls[u].db].users = {calls[u].id}

\* the step in which the statement awaited by task t resolves
StatementResolves(t) == calls[t].pc = "exec" /\ calls'[t].pc = "close"
\* the step in which the statement awaited by task t resolves or rejects
StatementSettles(t) == calls[t].pc = "exec" /\ calls'[t].pc # "exec"

\* what selectAll(tableName) and selectWhere(tableName, condition, params)
\* return when their statement runs on file f
SelectAllOn(f, tableName) ==
    fetchAllReturn(EngineAll(EngineExec(selectAllQuery(tableName), <<>>, f)))
SelectWhereOn(f, tableName, condition, params) ==
    fetchAllReturn(EngineAll(EngineExec(selectWhereQuery(tableName, condition),
                                        params, f)))

\* a selectAll or selectWhere call of task t returns what SelectAllOn and
\* SelectWhereOn say for the file its statement ran on
SelectReturns(t) ==
    LET c == calls[t] IN
    /\ (c.op = "selectAll" /\ StatementResolves(t)) =>
          fetchAllReturn(calls'[t].got) = SelectAllOn(file, c.args[1])
    /\ (c.op = "selectWhere" /\ StatementResolves(t)) =>
          fetchAllReturn(calls'[t].got)
            = SelectWhereOn(file, c.args[1], c.args[2], c.args[3])
    /\ (c.op \in {"selectAll", "selectWhere"} /\ c.pc = "return"
          /\ calls'[t].pc = "done") =>
          /\ calls'[t].settled = "resolved"
          /\ calls'[t].result = fetchAllReturn(c.got)

\* the condition text that compares one column with a parameter
ConditionOn(col) == IF col = "a" THEN "a = ?" ELSE "b = ?"

\* C3: once insert(tableName, columns, values) has inserted its row, selectAll
\* on the table, and selectWhere with a condition matching the row (any of
\* its columns compared with the inserted value), return a row whose value in
\* each listed column is the inserted value for that column.
C3_InsertSelectRoundTrip ==
    [][\A t \in Tasks :
         /\ SelectReturns(t)
         /\ (calls[t].op = "insert" /\ StatementResolves(t)) =>
            LET tableName == calls[t].args[1]
                cols == EngineParseColumns(calls[t].args[2]).cols
                values == calls[t].args[3]
                Same(r) == \A i \in DOMAIN values : r[cols[i]] = values[i]
                all == SelectAllOn(file', tableName)
            IN
            /\ all.kind = "rows"
            /\ \E k \in DOMAIN all.rows : Same(all.rows[k])
            /\ \A i \in DOMAIN values :
                  LET some == SelectWhereOn(file', tableName,
                                            ConditionOn(cols[i]),
                                            <<values[i]>>)
                  IN \E k \in DOMAIN some.rows : Same(some.rows[k])
      ]_vars

\* after an insert of two different values, a selectWhere matching the row
\* has returned exactly that row
C3_SelectedInserted ==
    \E t \in Tasks :
        /\ calls[t].op = "selectWhere"
        /\ calls[t].settled = "resolved"
        /\ calls[t].args = <<"users", "a = ?", <<"v2">>>>
        /\ calls[t].result.rows = <<[a |-> "v2", b |-> "v1"]>>

\* C4: a createTable issued for a table that an earlier createTable with the
\* same name and column definition has created: its statement does not fail,
\* the call then closes and returns without failing, and every table and
\* row is left as it was.
C4_CreateTableIdempotent ==
    [][\A t \in Tasks :
         /\ ( /\ calls[t].op = "createTable"
              /\ StatementSettles(t)
              /\ calls[t].args[1] \in DOMAIN file
              /\ file[calls[t].args[1]].defs = calls[t].args[2] )
            => ( /\ calls'[t].pc = "close"
                 /\ calls'[t].err = NoError
                 /\ file' = file )
         /\ (calls[t].op = "createTable" /\ calls[t].pc \in {"close", "return"})
            => calls'[t].settled # "rejected"
      ]_vars

\* a createTable has returned on a table that already held rows
C4_CreatedAgain ==
    \E t \in Tasks :
        /\ calls[t].op = "createTable"
        /\ calls[t].settled = "resolved"
        /\ "users" \in DOMAIN file
        /\ file["users"].rows # <<>>

\* C5: once delete(tableName, condition, params) has run its statement, a
\* selectWhere(tableName, condition, params) returns the empty sequence.
C5_DeleteThenSelectEmpty ==
    [][\A t \in Tasks :
         /\ SelectReturns(t)
         /\ (calls[t].op = "delete" /\ StatementResolves(t)) =>
            SelectWhereOn(file', calls[t].args[1], calls[t].args[2],
                          calls[t].args[3])
              = [kind |-> "rows", rows |-> <<>>, changes |-> 0]
      ]_vars

\* a delete has removed a row and left another one in the table
C5_DeletedSome ==
    \E t \in Tasks :
        /\ calls[t].op = "delete"
        /\ calls[t].settled = "resolved"
        /\ calls[t].got.changes >= 1
        /\ file["users"].rows # <<>>

\* C6: an update that the engine accepts (the table exists, the texts are
\* well formed, no parameter is left over) and whose condition matches no row
\* of the table does not fail and leaves every table and row as it was.
C6_UpdateNoMatchNoChange ==
    [][\A t \in Tasks :
         (calls[t].op = "update" /\ StatementSettles(t)) =>
            LET tableName == calls[t].args[1]
                s == EngineParseSet(calls[t].args[2])
                w == EngineParseCondition(calls[t].args[3])
                p == calls[t].args[4]
            IN
            ( /\ tableName \in DOMAIN file
              /\ s.ok /\ w.ok
              /\ Len(p) <= s.nph + w.nph
              /\ \A i \in DOMAIN file[tableName].rows :
                    ~EngineMatches(w, file[tableName].rows[i],
                                   EngineBind(p, s.nph + 1)) )
            => ( /\ calls'[t].pc = "close"
                 /\ calls'[t].err = NoError
                 /\ file' = file )
      ]_vars

\* an update has returned without changing a row of a table that holds rows
C6_UpdatedNothing ==
    \E t \in Tasks :
        /\ calls[t].op = "update"
        /\ calls[t].settled = "resolved"
        /\ calls[t].got.changes = 0
        /\ file["users"].rows # <<>>

\* C7: a read whose statement matches zero rows does not fail; fetchOne
\* returns undefined, and fetchAll (so selectAll, selectWhere and
\* selectAllOrdered) returns the empty sequence.
C7_EmptyReads ==
    [][\A t \in Tasks :
         LET c == calls[t]
             r == EngineExec(c.query, c.params, file)
         IN
         /\ ( /\ c.prim \in {"fetchAll", "fetchOne"}
              /\ StatementSettles(t)
              /\ r.err = NoError /\ r.rows = <<>> )
            => ( /\ calls'[t].pc = "close"
                 /\ calls'[t].err = NoError
                 /\ calls'[t].got.rows = <<>>
                 /\ calls'[t].got.kind =
                       IF c.prim = "fetchOne" THEN "undefined" ELSE "rows" )
         /\ ( /\ c.prim \in {"fetchAll", "fetchOne"}
              /\ c.pc \in {"close", "return"}
              /\ c.got.rows = <<>> )
            => ( /\ calls'[t].settled # "rejected"
                 /\ calls'[t].settled = "resolved" =>
                       /\ calls'[t].result.rows = <<>>
                       /\ calls'[t].result.kind =
                             IF c.prim = "fetchOne" THEN "undefined"
                             ELSE "rows" )
      ]_vars

\* a fetchOne on an existing table has returned undefined
C7_FetchOneUndefined ==
    \E t \in Tasks :
        /\ calls[t].op = "fetchOne"
        /\ calls[t].settled = "resolved"
        /\ calls[t].result.kind = "undefined"
        /\ "users" \in DOMAIN file

\* C8: an engine failure during a call (open failure, syntax error,
\* constraint violation, too many parameters) makes that call fail with the
\* engine's own error: the call never resolves, no result is produced, and
\* the statement is submitted at most once and after a failed open not at all.
C8_FailuresSurfaced ==
    [][\A t \in Tasks :
         LET c == calls[t]
             d == calls'[t]
             r == EngineExec(c.query, c.params, file)
         IN
         /\ (c.pc = "exec" /\ d # c /\ r.err # NoError) =>
               /\ d.pc = "done" /\ d.settled = "rejected"
               /\ d.err = r.err /\ d.result = NoValue
               /\ file' = file
         /\ (c.pc = "open" /\ d # c /\ Len(handles') = Len(handles)) =>
               /\ d.pc = "done" /\ d.settled = "rejected"
               /\ d.err = ERR_CANTOPEN /\ d.result = NoValue
               /\ d.trace = <<"openFailed">>
         /\ Execs(d) <= 1
         /\ (d.settled = "resolved") =>
               /\ Count(d.trace, "openFailed") = 0
               /\ Count(d.trace, "execFailed") = 0
         /\ (c.settled = "rejected" /\ d.id = c.id) => d = c
      ]_vars

\* a call has failed with the engine's constraint violation
C8_ConstraintRejected ==
    \E t \in Tasks :
        /\ calls[t].settled = "rejected"
        /\ calls[t].err = ERR_CONSTRAINT
        /\ calls[t].trace = <<"open", "execFailed">>

\* C10: insert builds one "?" per element of the value list and binds the
\* value list to them in order; an insert whose value count differed from
\* its placeholder count would fail.
C10_InsertPlaceholders ==
    \A t \in Tasks :
        calls[t].op = "insert" =>
            LET values == calls[t].args[3]
                ph == calls[t].query.placeholders[1]
            IN
            /\ Len(ph) = Len(values)
            /\ \A i \in DOMAIN ph : ph[i] = "?"
            /\ calls[t].params = values
            /\ (calls[t].pc = "done" /\ Len(values) # Len(ph)) =>
                  calls[t].settled = "rejected"

\* an insert of two values has bound both and returned
C10_InsertedTwoValues ==
    \E t \in Tasks :
        /\ calls[t].op = "insert"
        /\ calls[t].settled = "resolved"
        /\ Len(calls[t].args[3]) = 2
        /\ calls[t].got.changes = 1

====
